---- MODULE Spec2Model ----
(***************************************************************************)
(* Fair-value valuation engine of                                          *)
(* ev_fair_value_app_all_methods_search_autocomplete_w_mystocks.py.        *)
(*                                                                         *)
(* Number representation.  Python floats are modelled by exact integers:   *)
(*   - money (eps, bvps, prices, estimates rounded by round(x, 2)) is an   *)
(*     integer number of hundredths (cents);                               *)
(*   - growth_rate / discount_rate are integer percents (0.08 is 8);       *)
(*   - an unrounded quotient is a rational [n, d] with d > 0;              *)
(*   - round(x, 2) is RoundHalfEven on the exact quotient.                 *)
(* Optional values are tagged records: None, Num(v); Raise is the outcome  *)
(* of a call that ends in an exception.                                    *)
(***************************************************************************)
EXTENDS Integers, Sequences, FiniteSets, TLC

VARIABLES
    pc,             \* position of the script / which part of it runs
    eps, bvps, pe_ratio, current_price,   \* values read from info (195-198)
    growth_rate, discount_rate,           \* dcf_valuation's keyword arguments
    ev_val, dcf_val, graham_val, pe_val,  \* the four estimates
    ticker, info, hist,                   \* selected ticker, stock.info, history
    result,                               \* ev_valuation's return value
    weights, total_weight,                \* tab1 / tab4 sliders
    combined_val, return_pct,             \* tab1 composite and expected return
    provider,                             \* the data provider's answer per symbol
    tickers,                              \* tab4: watchlist symbols
    idx, results, warnings,               \* tab4: loop position, rows, st.warning
    company_filter, sort_by, results_df   \* tab4: filter, sort column, table

formulaVars == <<eps, bvps, pe_ratio, growth_rate, discount_rate,
                 dcf_val, graham_val, pe_val>>
snapshotVars == <<ticker, info, hist, result>>
singleVars == <<current_price, ev_val, weights, total_weight, combined_val,
                return_pct>>
batchVars == <<tickers, provider, idx, results, warnings,
               company_filter, sort_by, results_df>>
vars == <<pc, formulaVars, snapshotVars, singleVars, batchVars>>

----------------------------------------------------------------------------
(* Values *)

None == [tag |-> "None", v |-> 0]
Num(x) == [tag |-> "num", v |-> x]
Raise == [tag |-> "raise", v |-> 0]
Pending == [tag |-> "pending", v |-> 0]     \* not assigned yet
Absent == [tag |-> "absent", v |-> 0]       \* key missing from info
Str(chars) == [tag |-> "str", v |-> chars]  \* a string value of info

IsNum(x) == x.tag = "num"

\* bool(x) of an optional number: None and 0 are falsy
Truthy(x) == IsNum(x) /\ x.v # 0

\* info.get(key, default)
Get(rec, key, default) == IF rec[key].tag = "absent" THEN default ELSE rec[key]

----------------------------------------------------------------------------
(* Arithmetic *)

Abs(n) == IF n < 0 THEN -n ELSE n

\* round(n / d, 0) for d # 0, ties to even (Python 3 round)
RoundHalfEven(n, d) ==
    LET nn == IF d < 0 THEN -n ELSE n
        dd == Abs(d)
        q == nn \div dd
        r == nn % dd
    IN  IF 2 * r < dd THEN q
        ELSE IF 2 * r > dd THEN q + 1
        ELSE IF q % 2 = 0 THEN q ELSE q + 1

RECURSIVE ISqrtRec(_, _, _)
\* floor(sqrt(x)) by bisection, lo * lo <= x < hi * hi
ISqrtRec(lo, hi, x) ==
    IF hi - lo <= 1 THEN lo
    ELSE LET mid == (lo + hi) \div 2
         IN  IF mid * mid <= x THEN ISqrtRec(mid, hi, x)
             ELSE ISqrtRec(lo, mid, x)

RECURSIVE SqrtUpper(_, _)
\* a power of two h with h * h > x
SqrtUpper(h, x) == IF h * h > x THEN h ELSE SqrtUpper(2 * h, x)

ISqrt(x) == ISqrtRec(0, SqrtUpper(1, x), x)

RECURSIVE GCD(_, _)
GCD(a, b) == IF b = 0 THEN a ELSE GCD(b, a % b)

\* the rational n / d (d # 0) in lowest terms with a positive denominator
Rat(n, d) ==
    LET g == GCD(Abs(n), Abs(d))
        s == IF d < 0 THEN -1 ELSE 1
    IN  [n |-> (s * n) \div g, d |-> (s * d) \div g]

RSub(a, b) == Rat(a.n * b.d - b.n * a.d, a.d * b.d)
RMul(a, b) == Rat(a.n * b.n, a.d * b.d)
RDiv(a, b) == Rat(a.n * b.d, a.d * b.n)       \* b.n # 0
RLt(a, b) == a.n * b.d < b.n * a.d
RInt(k) == [n |-> k, d |-> 1]
RRound(a) == RoundHalfEven(a.n, a.d)

----------------------------------------------------------------------------
(* Valuation formulas, lines 31-54 *)

DefaultGrowthPct == 8
DefaultDiscountPct == 10
DefaultPE == 15

\* body of the try block of dcf_valuation
dcf_try(e, g, d) ==
    IF ~IsNum(e) THEN Raise                      \* None <= 0: TypeError
    ELSE IF e.v <= 0 THEN None
    ELSE IF d = g THEN Raise                     \* ZeroDivisionError
    ELSE Num(RoundHalfEven(e.v * (100 + g), d - g))

dcf_valuation(e, g, d) ==
    LET r == dcf_try(e, g, d)
    IN  IF r.tag = "raise" THEN None ELSE r      \* except: return None

\* body of the try block of graham_valuation; round(sqrt(22.5 e b), 2) in
\* cents is the integer nearest to sqrt(90 e b) / 2
graham_try(e, b) ==
    IF ~IsNum(e) THEN Raise
    ELSE IF e.v <= 0 THEN None
    ELSE IF ~IsNum(b) THEN Raise
    ELSE IF b.v <= 0 THEN None
    ELSE Num((ISqrt(90 * e.v * b.v) + 1) \div 2)

graham_valuation(e, b) ==
    LET r == graham_try(e, b)
    IN  IF r.tag = "raise" THEN None ELSE r

\* pe_valuation with the guard eps < 0 in place of eps <= 0
pe_try_strict(e, p) ==
    IF ~IsNum(e) THEN Raise
    ELSE IF e.v < 0 THEN None
    ELSE IF ~IsNum(p) THEN Raise
    ELSE Num(RoundHalfEven(e.v * p.v, 1))

\* body of the try block of pe_valuation
pe_try(e, p) ==
    IF ~IsNum(e) THEN Raise
    ELSE IF e.v <= 0 THEN None
    ELSE IF ~IsNum(p) THEN Raise                 \* eps * None: TypeError
    ELSE Num(RoundHalfEven(e.v * p.v, 1))

pe_valuation(e, p) ==
    LET r == pe_try(e, p)
    IN  IF r.tag = "raise" THEN None ELSE r

----------------------------------------------------------------------------
(* Inputs of the formulas *)

EpsValues == {None, Num(-250), Num(0), Num(1), Num(400), Num(1000)}
BvpsValues == {None, Num(-100), Num(0), Num(2000)}
PeValues == {None, Num(-3), Num(DefaultPE)}
MaxRateStep == 2
RatePcts == {DefaultGrowthPct + 2 * k : k \in 0 .. MaxRateStep}

InitFormulas ==
    /\ pc = "formulas"
    /\ eps \in EpsValues
    /\ bvps \in BvpsValues
    /\ pe_ratio \in PeValues
    /\ growth_rate \in RatePcts
    /\ discount_rate \in RatePcts
    /\ dcf_val = Pending /\ graham_val = Pending /\ pe_val = Pending
    /\ current_price = None /\ ev_val = None
    /\ ticker = << >> /\ info = << >> /\ hist = << >> /\ result = None
    /\ weights = << >> /\ total_weight = 0
    /\ combined_val = Pending /\ return_pct = Pending
    /\ tickers = << >> /\ provider = << >> /\ idx = 0
    /\ results = << >> /\ warnings = << >>
    /\ company_filter = << >> /\ sort_by = "" /\ results_df = << >>

CallDcf ==
    /\ pc = "formulas" /\ dcf_val = Pending
    /\ dcf_val' = dcf_valuation(eps, growth_rate, discount_rate)
    /\ UNCHANGED <<pc, eps, bvps, pe_ratio, growth_rate, discount_rate,
                   graham_val, pe_val, snapshotVars, singleVars, batchVars>>

CallGraham ==
    /\ pc = "formulas" /\ graham_val = Pending
    /\ graham_val' = graham_valuation(eps, bvps)
    /\ UNCHANGED <<pc, eps, bvps, pe_ratio, growth_rate, discount_rate,
                   dcf_val, pe_val, snapshotVars, singleVars, batchVars>>

CallPe ==
    /\ pc = "formulas" /\ pe_val = Pending
    /\ pe_val' = pe_valuation(eps, pe_ratio)
    /\ UNCHANGED <<pc, eps, bvps, pe_ratio, growth_rate, discount_rate,
                   dcf_val, graham_val, snapshotVars, singleVars, batchVars>>

NextFormulas == CallDcf \/ CallGraham \/ CallPe

SpecFormulas == InitFormulas /\ [][NextFormulas]_vars

----------------------------------------------------------------------------
(* Strings: sequences of characters over a small alphabet *)

UpperChar(c) ==
    IF c = "a" THEN "A" ELSE IF c = "b" THEN "B"
    ELSE IF c = "n" THEN "N" ELSE IF c = "s" THEN "S" ELSE c

\* str.upper()
Upper(str) == [k \in 1 .. Len(str) |-> UpperChar(str[k])]

\* str.endswith(suffix)
EndsWith(str, suffix) ==
    /\ Len(str) >= Len(suffix)
    /\ SubSeq(str, Len(str) - Len(suffix) + 1, Len(str)) = suffix

DotNS == <<".", "N", "S">>

----------------------------------------------------------------------------
(* get_fair_value, lines 56-73.  A provider answer is                      *)
(* [ok, info, hist]: ok = FALSE when yf.Ticker(t).info raises.             *)

EvGrowthPct == 10

NonePair == [fair |-> None, cur |-> None]

\* the truthiness test of line 65
ev_inputs_ok(ev, ebitda, shares) ==
    Truthy(ev) /\ Truthy(ebitda) /\ Truthy(shares)

get_fair_value(ans) ==
    IF ~ans.ok THEN NonePair                     \* except: return None, None
    ELSE LET ev == Get(ans.info, "enterpriseValue", None)
             ebitda == Get(ans.info, "ebitda", None)
             shares == Get(ans.info, "sharesOutstanding", None)
             cur == Get(ans.info, "currentPrice", None)
         IN  IF ~ev_inputs_ok(ev, ebitda, shares) THEN NonePair
             ELSE LET ev_ebitda_ratio == Rat(ev.v, ebitda.v)
                      projected_ebitda == Rat(ebitda.v * (100 + EvGrowthPct), 100)
                      projected_ev == RMul(projected_ebitda, ev_ebitda_ratio)
                      fair_price == RDiv(projected_ev, RInt(shares.v))
                  IN  [fair |-> [tag |-> "num", v |-> fair_price], cur |-> cur]

----------------------------------------------------------------------------
(* ev_valuation, lines 75-126 *)

OverValuedBelow == 5
DeepDiscountAbove == 30
HighValueAbove == 20
UndervaluedAbove == 18
MegaCapBillions == 200
LargeCapBillions == 10
MidCapBillions == 2
EntryPct == 105
ExitPct == 95

NA == [tag |-> "N/A", v |-> 0]

\* lines 87-91; market capitalisation in whole billions
cap_type(market_cap) ==
    IF market_cap >= MegaCapBillions THEN "Mega"
    ELSE IF market_cap >= LargeCapBillions THEN "Large"
    ELSE IF market_cap >= MidCapBillions THEN "Mid" ELSE "Small"

\* line 93: ((fair_price - current_price) / current_price) * 100
underval_pct_of(fair_price, cur) ==
    RMul(RDiv(RSub(fair_price, RInt(cur)), RInt(cur)), RInt(100))

\* the band with >= in place of > at the three upper thresholds
band_nonstrict(fair_price, underval_pct) ==
    IF RLt(fair_price, RInt(0)) \/ RLt(underval_pct, RInt(OverValuedBelow))
        THEN "Over Valued"
    ELSE IF ~RLt(underval_pct, RInt(DeepDiscountAbove)) THEN "Deep Discount"
    ELSE IF ~RLt(underval_pct, RInt(HighValueAbove)) THEN "High Value"
    ELSE IF ~RLt(underval_pct, RInt(UndervaluedAbove)) THEN "Undervalued"
    ELSE "Fair/Premium"

\* the band with the High Value branch of lines 98-99 left out
band_without_high_value(fair_price, underval_pct) ==
    IF RLt(fair_price, RInt(0)) \/ RLt(underval_pct, RInt(OverValuedBelow))
        THEN "Over Valued"
    ELSE IF RLt(RInt(DeepDiscountAbove), underval_pct) THEN "Deep Discount"
    ELSE IF RLt(RInt(UndervaluedAbove), underval_pct) THEN "Undervalued"
    ELSE "Fair/Premium"

\* lines 94-103
band_of(fair_price, underval_pct) ==
    IF RLt(fair_price, RInt(0)) \/ RLt(underval_pct, RInt(OverValuedBelow))
        THEN "Over Valued"
    ELSE IF RLt(RInt(DeepDiscountAbove), underval_pct) THEN "Deep Discount"
    ELSE IF RLt(RInt(HighValueAbove), underval_pct) THEN "High Value"
    ELSE IF RLt(RInt(UndervaluedAbove), underval_pct) THEN "Undervalued"
    ELSE "Fair/Premium"

\* the signal with the comparison of line 123 turned round
signal_swapped(fair_price, cur) ==
    IF RLt(fair_price, RInt(cur)) THEN "Buy" ELSE "Hold/Sell"

\* line 123

signal_of(fair_price, cur) ==
    IF RLt(RInt(cur), fair_price) THEN "Buy" ELSE "Hold/Sell"

RECURSIVE MaxHigh(_)
MaxHigh(h) ==
    IF Len(h) = 1 THEN h[1].High
    ELSE LET m == MaxHigh(Tail(h)) IN IF h[1].High > m THEN h[1].High ELSE m

RECURSIVE MinLow(_)
MinLow(h) ==
    IF Len(h) = 1 THEN h[1].Low
    ELSE LET m == MinLow(Tail(h)) IN IF h[1].Low < m THEN h[1].Low ELSE m

Snapshot(rec) == [tag |-> "snapshot", v |-> rec]

\* body of the try block
ev_valuation_try(tkr, ans) ==
    LET sym == Upper(tkr)
        fv == get_fair_value(ans)
    IN  IF fv.fair = None \/ fv.cur = None THEN None
        ELSE LET fair_price == fv.fair.v
                 cur == fv.cur.v
                 market_cap == Get(ans.info, "marketCap", Num(0))
             IN  IF ~IsNum(market_cap) THEN Raise     \* None >= int
                 ELSE IF cur = 0 THEN Raise           \* ZeroDivisionError
                 ELSE
                 LET underval_pct == underval_pct_of(fair_price, cur)
                     empty == Len(ans.hist) = 0
                     high_3y == IF empty THEN None ELSE Num(MaxHigh(ans.hist))
                     low_3y == IF empty THEN None ELSE Num(MinLow(ans.hist))
                 IN  Snapshot([
                       Symbol |-> sym,
                       Name |-> Get(ans.info, "shortName", Str(<<"N", "A">>)).v,
                       MarketValueEV |-> RRound(fair_price),
                       CurrentPrice |-> cur,
                       UndervaluedPct |-> RRound(RMul(underval_pct, RInt(100))),
                       ValuationBand |-> band_of(fair_price, underval_pct),
                       Market |-> IF EndsWith(sym, DotNS) THEN "India" ELSE "USA",
                       CapSize |-> cap_type(market_cap.v),
                       High3Y |-> IF Truthy(high_3y) THEN high_3y ELSE NA,
                       Low3Y |-> IF Truthy(low_3y) THEN low_3y ELSE NA,
                       EntryPrice |-> IF Truthy(low_3y)
                           THEN Num(RoundHalfEven(low_3y.v * EntryPct, 100)) ELSE NA,
                       ExitPrice |-> IF Truthy(high_3y)
                           THEN Num(RoundHalfEven(high_3y.v * ExitPct, 100)) ELSE NA,
                       Signal |-> signal_of(fair_price, cur)])

ev_valuation(tkr, ans) ==
    LET r == ev_valuation_try(tkr, ans)
    IN  IF r.tag = "raise" THEN None ELSE r      \* except: return None

----------------------------------------------------------------------------
(* Provider answers for one ticker *)

\* yf.Ticker(t): the provider resolves symbols case-insensitively
Lookup(t) == provider[Upper(t)]

MaxHist == 2

\* a price history of n rows, highs rising and lows falling
HistOf(n) == [k \in 1 .. n |-> [High |-> 12000 + 500 * k, Low |-> 9000 - 500 * k]]

\* enterprise values that put Undervalued (%) below, on and above each
\* threshold when sharesOutstanding = 11 and currentPrice = 100.00
EvValues == {None, Num(0), Num(-50000), Num(90000), Num(104000), Num(105000),
             Num(110000), Num(118000), Num(119000), Num(120000), Num(125000),
             Num(130000), Num(131000)}
EbitdaValues == {None, Num(0), Num(10000), Num(-3000)}
SharesValues == {None, Num(0), Num(11), Num(7)}
PriceValues == {Absent, None, Num(0), Num(10000)}
MarketCapValues == {Absent, None, Num(5), Num(300)}
TickerValues == {<<"a">>, <<"b", ".", "n", "s">>}

InfoOf(ev, ebitda, shares, price, cap, name, country, e, b, p) ==
    [enterpriseValue |-> ev, ebitda |-> ebitda, sharesOutstanding |-> shares,
     currentPrice |-> price, marketCap |-> cap, shortName |-> name,
     country |-> country, trailingEps |-> e, bookValue |-> b, trailingPE |-> p]

SnapshotAnswers ==
    {[ok |-> ok, hist |-> HistOf(n),
      info |-> InfoOf(ev, ebitda, shares, price, cap, Absent, Absent,
                      Absent, Absent, Absent)] :
        ok \in BOOLEAN, n \in 0 .. MaxHist, ev \in EvValues,
        ebitda \in EbitdaValues, shares \in SharesValues,
        price \in PriceValues, cap \in MarketCapValues}

InitSnapshot ==
    /\ pc = "snapshot"
    /\ ticker \in TickerValues
    /\ \E ans \in SnapshotAnswers : provider = [t \in {Upper(ticker)} |-> ans]
    /\ info = << >>
    /\ result = Pending
    /\ eps = None /\ bvps = None /\ pe_ratio = None
    /\ growth_rate = DefaultGrowthPct /\ discount_rate = DefaultDiscountPct
    /\ dcf_val = Pending /\ graham_val = Pending /\ pe_val = Pending
    /\ current_price = None /\ ev_val = None /\ hist = << >>
    /\ weights = << >> /\ total_weight = 0
    /\ combined_val = Pending /\ return_pct = Pending
    /\ tickers = << >> /\ idx = 0
    /\ results = << >> /\ warnings = << >>
    /\ company_filter = << >> /\ sort_by = "" /\ results_df = << >>

CallEvValuation ==
    /\ pc = "snapshot" /\ result = Pending
    /\ result' = ev_valuation(ticker, Lookup(ticker))
    /\ UNCHANGED <<pc, formulaVars, ticker, info, hist, singleVars, batchVars>>

NextSnapshot == CallEvValuation

SpecSnapshot == InitSnapshot /\ [][NextSnapshot]_vars

----------------------------------------------------------------------------
(* Single-ticker view, lines 190-257 *)

TotalWeight == 100

\* a weight set is <<EV, DCF, Graham, PE>>, each a slider position 0..100
Tab1Defaults == <<30, 30, 20, 20>>
Tab4Defaults == <<40, 30, 10, 20>>
WeightSets == {Tab1Defaults, Tab4Defaults, <<100, 0, 0, 0>>, <<0, 50, 25, 25>>,
               <<30, 30, 20, 19>>, <<30, 30, 20, 21>>}

SumWeights(w) == w[1] + w[2] + w[3] + w[4]

AllAvailable(ev, dcf, graham, pe) ==
    ev # None /\ dcf # None /\ graham # None /\ pe # None

\* lines 231-236 and 365-370: round(sum of estimate * weight / 100, 2)
Combine(w, ev, dcf, graham, pe) ==
    RoundHalfEven(ev.v * w[1] + dcf.v * w[2] + graham.v * w[3] + pe.v * w[4],
                  TotalWeight)

\* lines 255 and 371: round(((combined - price) / price) * 100, 2), in
\* hundredths of a percent; the caller has excluded price = 0
ReturnPct(combined, price) == RoundHalfEven((combined - price) * 10000, price)

\* lines 200-204
ev_val_single(res) == IF res # None THEN Num(res.v.MarketValueEV) ELSE Num(0)

SingleAnswers ==
    {[ok |-> ok, hist |-> HistOf(MaxHist),
      info |-> InfoOf(ev, ebitda, Num(11), price, Absent, Str(<<"A", "b">>),
                      Str(<<"U", "S">>), e, b, p)] :
        ok \in BOOLEAN, ev \in {None, Num(0), Num(-50000), Num(130000)},
        ebitda \in {None, Num(10000)}, price \in {Absent, Num(0), Num(10000)},
        e \in {Absent, None, Num(-250), Num(1000)},
        b \in {Absent, Num(2000)}, p \in {Absent, None, Num(20)}}

InitSingle ==
    /\ pc = "ticker_selected"
    /\ ticker \in TickerValues
    /\ \E ans \in SingleAnswers : provider = [t \in {Upper(ticker)} |-> ans]
    /\ info = << >> /\ hist = << >> /\ result = Pending
    /\ eps = Pending /\ bvps = Pending /\ pe_ratio = Pending
    /\ growth_rate = DefaultGrowthPct /\ discount_rate = DefaultDiscountPct
    /\ dcf_val = Pending /\ graham_val = Pending /\ pe_val = Pending
    /\ current_price = Pending /\ ev_val = Pending
    /\ weights = << >> /\ total_weight = 0
    /\ combined_val = Pending /\ return_pct = Pending
    /\ tickers = << >> /\ idx = 0
    /\ results = << >> /\ warnings = << >>
    /\ company_filter = << >> /\ sort_by = "" /\ results_df = << >>

\* lines 190-208: the lookup of line 193 is not guarded, so a provider
\* failure ends the script run
ValueTicker ==
    /\ pc = "ticker_selected"
    /\ LET ans == Lookup(ticker)
           res == ev_valuation(ticker, ans)
           e == Get(ans.info, "trailingEps", Num(0))
           b == Get(ans.info, "bookValue", Num(0))
           p == Get(ans.info, "trailingPE", Num(DefaultPE))
       IN  /\ result' = res
           /\ IF ~ans.ok
              THEN /\ pc' = "crashed"
                   /\ UNCHANGED <<info, eps, bvps, pe_ratio, current_price,
                                  ev_val, dcf_val, graham_val, pe_val>>
              ELSE /\ pc' = "tab1"
                   /\ info' = ans.info
                   /\ eps' = e /\ bvps' = b /\ pe_ratio' = p
                   /\ current_price' = Get(ans.info, "currentPrice", None)
                   /\ ev_val' = ev_val_single(res)
                   /\ dcf_val' = dcf_valuation(e, DefaultGrowthPct, DefaultDiscountPct)
                   /\ graham_val' = graham_valuation(e, b)
                   /\ pe_val' = pe_valuation(e, p)
    /\ UNCHANGED <<growth_rate, discount_rate, ticker, hist, weights,
                   total_weight, combined_val, return_pct, batchVars>>

\* lines 212-257: the sliders, the composite and the comparison table
Tab1Composite ==
    /\ pc = "tab1"
    /\ \E w \in WeightSets :
        /\ weights' = w
        /\ total_weight' = SumWeights(w)
        /\ IF SumWeights(w) = TotalWeight
                /\ AllAvailable(ev_val, dcf_val, graham_val, pe_val)
           THEN LET c == Combine(w, ev_val, dcf_val, graham_val, pe_val)
                IN  /\ combined_val' = Num(c)
                    /\ IF ~IsNum(current_price) \/ current_price.v = 0
                       THEN pc' = "crashed" /\ return_pct' = return_pct
                       ELSE /\ pc' = "tab1_done"
                            /\ return_pct' = Num(ReturnPct(c, current_price.v))
           ELSE /\ pc' = "tab1_done"
                /\ UNCHANGED <<combined_val, return_pct>>
    /\ UNCHANGED <<formulaVars, snapshotVars, current_price, ev_val, batchVars>>

NextSingle == ValueTicker \/ Tab1Composite

SpecSingle == InitSingle /\ [][NextSingle]_vars

----------------------------------------------------------------------------
(* Watchlist, lines 323-410 *)

AllowedCountries == {<<"I", "n">>, <<"U", "S">>}    \* India, United States

\* line 358: a missing snapshot and a falsy (zero) EV value both give None
ev_val_batch(res) ==
    IF res # None /\ res.v.MarketValueEV # 0
    THEN Num(res.v.MarketValueEV) ELSE None

\* lines 18-24, on a value in hundredths: the symbol and the two-decimal text
format_currency(val, symbol) ==
    IF val # None THEN [tag |-> "text", sym |-> symbol, v |-> val.v]
    ELSE [tag |-> "text", sym |-> "-", v |-> 0]

\* lines 363-387: the composite and the row, given the four estimates
loop_row(tkr, w, name, country, price, ev, dcf, graham, pe) ==
    IF ~AllAvailable(ev, dcf, graham, pe)
    THEN [kind |-> "row",
          row |-> [Ticker |-> tkr, CompanyName |-> name, Country |-> country,
                   CurrentPrice |-> price, MarketValueEV |-> ev, Dcf |-> dcf,
                   Graham |-> graham, PE |-> pe,
                   NetFairValue |-> None, ExpectedReturnPct |-> None]]
    ELSE IF price.v = 0 THEN [kind |-> "raise"]      \* ZeroDivisionError
    ELSE [kind |-> "row",
          row |-> [Ticker |-> tkr, CompanyName |-> name, Country |-> country,
                   CurrentPrice |-> price, MarketValueEV |-> ev, Dcf |-> dcf,
                   Graham |-> graham, PE |-> pe,
                   NetFairValue |-> Num(Combine(w, ev, dcf, graham, pe)),
                   ExpectedReturnPct |->
                       Num(ReturnPct(Combine(w, ev, dcf, graham, pe), price.v))]]

\* lines 347-361: the fields read from info, the skip test, the estimates
loop_info(tkr, w, res, country, name, price, e, b, p) ==
    IF price = None \/ country \notin AllowedCountries
    THEN [kind |-> "skip"]                           \* continue
    ELSE loop_row(tkr, w, name, country, price, ev_val_batch(res),
                  dcf_valuation(e, DefaultGrowthPct, DefaultDiscountPct),
                  graham_valuation(e, b), pe_valuation(e, p))

\* outcome of the try block of lines 343-387 for one ticker: "raise" (the
\* except clause of line 388 takes over), "skip" (continue) or "row"
loop_body(tkr, w) ==
    IF ~Lookup(tkr).ok THEN [kind |-> "raise"]
    ELSE loop_info(tkr, w, ev_valuation(tkr, Lookup(tkr)),
                   Get(Lookup(tkr).info, "country", Str(<<"U", "n", "k">>)).v,
                   Get(Lookup(tkr).info, "shortName", Str(<< >>)).v,
                   Get(Lookup(tkr).info, "currentPrice", None),
                   Get(Lookup(tkr).info, "trailingEps", Num(0)),
                   Get(Lookup(tkr).info, "bookValue", Num(0)),
                   Get(Lookup(tkr).info, "trailingPE", Num(DefaultPE)))

\* str.contains(pat, case=False) for a pattern without regex metacharacters
Contains(str, pat) ==
    \E k \in 0 .. Len(str) - Len(pat) :
        SubSeq(Upper(str), k + 1, k + Len(pat)) = Upper(pat)

\* lines 396-398
filter_rows(rows, pat) ==
    IF Len(pat) = 0 THEN rows
    ELSE SelectSeq(rows, LAMBDA r : Contains(r.CompanyName, Upper(pat)))

Reverse(seq) == [k \in 1 .. Len(seq) |-> seq[Len(seq) + 1 - k]]

RECURSIVE InsertAsc(_, _, _)
\* insert index j into the index list sorted, after every entry whose key is
\* not greater (insertion sort, stable)
InsertAsc(sorted, j, key) ==
    IF Len(sorted) = 0 THEN <<j>>
    ELSE LET last == sorted[Len(sorted)]
         IN  IF key[last].v <= key[j].v THEN Append(sorted, j)
             ELSE Append(InsertAsc(SubSeq(sorted, 1, Len(sorted) - 1), j, key),
                         last)

RECURSIVE ArgSortAsc(_, _)
\* numpy argsort of the keys at the index list ids, as a list of indices
ArgSortAsc(ids, key) ==
    IF Len(ids) = 0 THEN << >>
    ELSE InsertAsc(ArgSortAsc(SubSeq(ids, 1, Len(ids) - 1), key),
                   ids[Len(ids)], key)

\* the indexer with ascending=False forgotten
nargsort_asc(key) ==
    LET all == [k \in 1 .. Len(key) |-> k]
        non_nan_idx == SelectSeq(all, LAMBDA k : key[k] # None)
        nan_idx == SelectSeq(all, LAMBDA k : key[k] = None)
    IN  ArgSortAsc(non_nan_idx, key) \o nan_idx

\* the indexer of sort_values(ascending=False, na_position="last"), line 401:
\* pandas nargsort reverses the non-missing keys, sorts them ascending,
\* reverses the result and puts the missing ones last
nargsort(key) ==
    LET all == [k \in 1 .. Len(key) |-> k]
        non_nan_idx == SelectSeq(all, LAMBDA k : key[k] # None)
        nan_idx == SelectSeq(all, LAMBDA k : key[k] = None)
    IN  Reverse(ArgSortAsc(Reverse(non_nan_idx), key)) \o nan_idx

SortColumns == {"Expected Return %", "Net Fair Value"}

SortKey(row, col) ==
    IF col = "Expected Return %" THEN row.ExpectedReturnPct ELSE row.NetFairValue

sort_values(rows, col) ==
    LET key == [k \in 1 .. Len(rows) |-> SortKey(rows[k], col)]
        indexer == nargsort(key)
    IN  [k \in 1 .. Len(rows) |-> rows[indexer[k]]]

\* lines 403-406
format_row(r) ==
    [r EXCEPT !.CurrentPrice = format_currency(@, "$"),
              !.MarketValueEV = format_currency(@, "$"),
              !.Dcf = format_currency(@, "$"),
              !.Graham = format_currency(@, "$"),
              !.PE = format_currency(@, "$"),
              !.NetFairValue = format_currency(@, "$")]

MaxTickers == 5

\* the k-th watchlist symbol: k copies of "A", every second one on the NSE
Sym(k) == [j \in 1 .. k |-> "A"] \o (IF k % 2 = 0 THEN DotNS ELSE << >>)

Complete(country, name, ev, price, e) ==
    [ok |-> TRUE, hist |-> HistOf(1),
     info |-> InfoOf(ev, Num(10000), Num(11), price, Num(5), name, country,
                     e, Num(2000), Absent)]

BatchAnswers ==
    { [Complete(Absent, Absent, None, None, None) EXCEPT !.ok = FALSE],
      Complete(Str(<<"G", "e">>), Str(<<"B", "a">>), Num(130000), Num(10000), Num(1000)),
      Complete(Str(<<"I", "n">>), Str(<<"A", "b">>), Num(130000), Absent, Num(1000)),
      Complete(Str(<<"U", "S">>), Str(<<"A", "b">>), Num(130000), Num(10000), Num(1000)),
      Complete(Str(<<"I", "n">>), Str(<<"b", "a">>), Num(90000), Num(10000), Num(400)),
      Complete(Str(<<"U", "S">>), Absent, Num(130000), Num(0), Num(1000)) }

FilterValues == {<< >>, <<"a", "b">>}

InitBatch ==
    /\ pc = "tab4"
    /\ \E n \in 0 .. MaxTickers :
        /\ tickers = [k \in 1 .. n |-> Sym(k)]
        /\ provider \in [{Sym(k) : k \in 1 .. n} -> BatchAnswers]
    /\ ticker = << >> /\ info = << >> /\ hist = << >> /\ result = None
    /\ eps = None /\ bvps = None /\ pe_ratio = None
    /\ growth_rate = DefaultGrowthPct /\ discount_rate = DefaultDiscountPct
    /\ dcf_val = Pending /\ graham_val = Pending /\ pe_val = Pending
    /\ current_price = None /\ ev_val = None
    /\ weights = << >> /\ total_weight = 0
    /\ combined_val = Pending /\ return_pct = Pending
    /\ idx = 0 /\ results = << >> /\ warnings = << >>
    /\ company_filter = << >> /\ sort_by = "" /\ results_df = << >>

\* lines 326-340
Tab4Weights ==
    /\ pc = "tab4"
    /\ \E w \in {Tab4Defaults, <<30, 30, 20, 19>>} :
        /\ weights' = w
        /\ total_weight' = SumWeights(w)
        /\ IF SumWeights(w) # TotalWeight
           THEN pc' = "weights_warning" /\ idx' = idx
           ELSE pc' = "loop" /\ idx' = 1
    /\ UNCHANGED <<formulaVars, snapshotVars, current_price, ev_val,
                   combined_val, return_pct, tickers, provider, results,
                   warnings, company_filter, sort_by, results_df>>

\* one iteration with the try of line 343 around the loop instead of in it:
\* an exception ends the loop
LoopBodyAborting ==
    /\ pc = "loop" /\ idx <= Len(tickers)
    /\ LET out == loop_body(tickers[idx], weights)
       IN  /\ results' = IF out.kind = "row" THEN Append(results, out.row)
                         ELSE results
           /\ warnings' = IF out.kind = "raise"
                          THEN Append(warnings, tickers[idx]) ELSE warnings
           /\ idx' = IF out.kind = "raise" THEN Len(tickers) + 1 ELSE idx + 1
    /\ UNCHANGED <<pc, formulaVars, snapshotVars, singleVars, tickers,
                   provider, company_filter, sort_by, results_df>>

\* lines 342-389, one iteration
LoopBody ==
    /\ pc = "loop" /\ idx <= Len(tickers)
    /\ LET out == loop_body(tickers[idx], weights)
       IN  /\ results' = IF out.kind = "row" THEN Append(results, out.row)
                         ELSE results
           /\ warnings' = IF out.kind = "raise"
                          THEN Append(warnings, tickers[idx]) ELSE warnings
    /\ idx' = idx + 1
    /\ UNCHANGED <<pc, formulaVars, snapshotVars, singleVars, tickers,
                   provider, company_filter, sort_by, results_df>>

\* lines 391-410, after the loop
FilterSort ==
    /\ pc = "loop" /\ idx > Len(tickers)
    /\ IF Len(results) = 0
       THEN /\ pc' = "no_data"
            /\ UNCHANGED <<company_filter, sort_by, results_df>>
       ELSE /\ pc' = "table"
            /\ \E f \in FilterValues, col \in SortColumns :
                /\ company_filter' = Upper(f)
                /\ sort_by' = col
                /\ results_df' =
                     LET sorted == sort_values(filter_rows(results, f), col)
                     IN  [k \in 1 .. Len(sorted) |-> format_row(sorted[k])]
    /\ UNCHANGED <<formulaVars, snapshotVars, singleVars, tickers, provider,
                   idx, results, warnings>>

NextBatch == Tab4Weights \/ LoopBody \/ FilterSort

SpecBatch == InitBatch /\ [][NextBatch]_vars

----------------------------------------------------------------------------
(* Properties of the valuation formulas (SpecFormulas) *)

NonPositive(x) == IsNum(x) /\ x.v <= 0

\* C1: for every eps <= 0, whatever the other arguments, dcf_valuation,
\* graham_valuation and pe_valuation each return None and none of them ends
\* in an exception.
C1_NonPositiveEpsUnavailable ==
    NonPositive(eps) =>
        /\ dcf_val \in {Pending, None}
        /\ graham_val \in {Pending, None}
        /\ pe_val \in {Pending, None}

\* C1 witness: all three formulas were called with eps = 0 and returned None
C1_Witness ==
    /\ eps = Num(0)
    /\ dcf_val = None /\ graham_val = None /\ pe_val = None

\* C2: dcf_valuation returns None whenever discount_rate <= growth_rate,
\* for any eps, both when the rates are equal and when the discount rate is
\* the smaller one.
C2_DcfGuardsDiscountRate ==
    (dcf_val # Pending /\ discount_rate <= growth_rate) => dcf_val = None

\* C9: every estimate the three formulas return is None or a non-negative
\* number.
C9_EstimatesNeverNegative ==
    \A x \in {dcf_val, graham_val, pe_val} : IsNum(x) => x.v >= 0

----------------------------------------------------------------------------
(* Properties of ev_valuation (SpecSnapshot) *)

ProviderInfo == Lookup(ticker).info

\* the unrounded EV fair price is FairNum / FairDen, from the provider's
\* enterpriseValue and sharesOutstanding (ebitda cancels)
FairNum == (100 + EvGrowthPct) * ProviderInfo.enterpriseValue.v
FairDen == 100 * ProviderInfo.sharesOutstanding.v

HasSnapshot == result.tag = "snapshot"

PositivePrices ==
    /\ HasSnapshot
    /\ result.v.CurrentPrice > 0
    /\ FairDen > 0 /\ FairNum > 0

\* Undervalued (%) < t and > t, for a positive price and denominator
PctBelow(t) == 100 * FairNum < (100 + t) * result.v.CurrentPrice * FairDen
PctAbove(t) == 100 * FairNum > (100 + t) * result.v.CurrentPrice * FairDen
PctExactly(t) == 100 * FairNum = (100 + t) * result.v.CurrentPrice * FairDen

\* C3: for fairPrice > 0 and currentPrice > 0 the band is decided by
\* undervaluedPct with first-match-wins precedence: below 5 Over Valued,
\* else above 30 Deep Discount, else above 20 High Value, else above 18
\* Undervalued, otherwise Fair/Premium; the values 5, 18, 20 and 30
\* themselves fall where these strict comparisons put them.
C3_BandByStrictThresholds ==
    PositivePrices =>
        result.v.ValuationBand =
            IF PctBelow(5) THEN "Over Valued"
            ELSE IF PctAbove(30) THEN "Deep Discount"
            ELSE IF PctAbove(20) THEN "High Value"
            ELSE IF PctAbove(18) THEN "Undervalued"
            ELSE "Fair/Premium"

\* C3 witness: undervaluedPct is exactly 20 and the band is Undervalued
C3_Witness ==
    /\ PositivePrices /\ PctExactly(20)
    /\ result.v.UndervaluedPct = 2000
    /\ result.v.ValuationBand = "Undervalued"

ExactlyThirty ==
    /\ PositivePrices /\ PctExactly(30)
    /\ result.v.MarketValueEV = 13000 /\ result.v.CurrentPrice = 10000

\* C4 as stated: when undervaluedPct is exactly 30 (fair price 130, current
\* price 100) the band is Undervalued, not Deep Discount.
C4_ExactlyThirtyIsUndervalued ==
    ExactlyThirty => result.v.ValuationBand = "Undervalued"

\* C4 amended: when undervaluedPct is exactly 30 (fair price 130, current
\* price 100) the band is High Value, not Deep Discount.
C4_ExactlyThirtyIsHighValue ==
    ExactlyThirty => result.v.ValuationBand = "High Value"

\* C4 witness: a snapshot of fair price 130 at current price 100
C4_Witness == ExactlyThirty /\ result.v.UndervaluedPct = 3000

EvEstimateUnavailable ==
    \E k \in {"enterpriseValue", "ebitda", "sharesOutstanding"} :
        ~Truthy(Get(ProviderInfo, k, None))

\* C6: ev_valuation fails to produce a snapshot only when currentPrice is
\* unavailable: with currentPrice available and the EV-based estimate
\* unavailable a snapshot record is still returned.
C6_SnapshotUnlessPriceMissing ==
    ( /\ result # Pending
      /\ Lookup(ticker).ok
      /\ IsNum(Get(ProviderInfo, "currentPrice", None))
      /\ EvEstimateUnavailable )
    => HasSnapshot

\* C10: in every snapshot with currentPrice > 0, a band other than Over
\* Valued comes with Signal Buy, and Signal Hold/Sell comes with band Over
\* Valued.
C10_BandSignalConsistent ==
    (HasSnapshot /\ result.v.CurrentPrice > 0) =>
        /\ result.v.ValuationBand # "Over Valued" => result.v.Signal = "Buy"
        /\ result.v.Signal = "Hold/Sell" => result.v.ValuationBand = "Over Valued"

\* C10 witness: the converse fails, band Over Valued with Signal Buy at
\* 0 < undervaluedPct < 5
C10_Witness ==
    /\ HasSnapshot /\ result.v.CurrentPrice > 0
    /\ result.v.UndervaluedPct > 0 /\ result.v.UndervaluedPct < 500
    /\ result.v.ValuationBand = "Over Valued"
    /\ result.v.Signal = "Buy"

----------------------------------------------------------------------------
(* Properties of the composite (SpecSingle) *)

\* C5: a combined fair value is produced only when the four weights sum to
\* exactly 100 and all four estimates, the EV-based one included, are
\* available; no number stands in for a missing estimate.
C5_StrictComposite ==
    (pc = "tab1_done" /\ IsNum(combined_val)) =>
        /\ total_weight = TotalWeight
        /\ result.tag = "snapshot"
        /\ dcf_val # None /\ graham_val # None /\ pe_val # None

----------------------------------------------------------------------------
(* Properties of the watchlist (SpecBatch) *)

LookupFailed(t) == ~Lookup(t).ok

\* the lookup succeeded, currentPrice is available, the country is allowed
Eligible(t) ==
    /\ Lookup(t).ok
    /\ Get(Lookup(t).info, "currentPrice", None) # None
    /\ Get(Lookup(t).info, "country", Str(<< >>)).v \in AllowedCountries

RowTickers == [k \in 1 .. Len(results) |-> results[k].Ticker]

Handled == SubSeq(tickers, 1, idx - 1)

BatchFinished == pc \in {"table", "no_data"}

BatchIsolation ==
    /\ pc = "loop" =>
        /\ idx \in 1 .. Len(tickers) + 1
        /\ RowTickers = SelectSeq(Handled, Eligible)
        /\ warnings = SelectSeq(Handled, LookupFailed)
    /\ BatchFinished =>
        /\ idx = Len(tickers) + 1
        /\ RowTickers = SelectSeq(tickers, Eligible)
        /\ warnings = SelectSeq(tickers, LookupFailed)

OneTickerPerStep ==
    (pc = "loop" /\ idx <= Len(tickers)) => (idx' = idx + 1 /\ pc' = "loop")

\* C7: with weights summing to 100 every ticker is handled exactly once in
\* list order and the loop always finishes (every step moves idx one ticker
\* on, up to Len(tickers) + 1, where the loop ends); a ticker whose lookup raises
\* does not keep the later ones from being handled; the rows are, in input
\* order, exactly the tickers whose lookup succeeded with currentPrice
\* available and country in {India, United States}.
C7_BatchFailureIsolation ==
    /\ []BatchIsolation
    /\ [][OneTickerPerStep]_vars

\* C7 witness: five tickers, the lookup of exactly one of them (not the
\* last) raises, the other four are eligible, and the table has four rows
C7_Witness ==
    /\ pc = "table"
    /\ Len(tickers) = 5 /\ Len(results) = 4 /\ Len(warnings) = 1
    /\ LookupFailed(tickers[2])
    /\ \A k \in {1, 3, 4, 5} : Eligible(tickers[k])

\* the numeric value a table row holds in the sort column, None if missing
TableKey(r) ==
    IF sort_by = "Expected Return %" THEN r.ExpectedReturnPct
    ELSE IF r.NetFairValue.sym = "-" THEN None ELSE Num(r.NetFairValue.v)

\* C8: after the sort on the chosen column, every row with a value precedes
\* every row without one, the rows with values are in non-increasing order,
\* and the table is a permutation of the filtered result rows.
C8_SortedDescendingMissingLast ==
    pc = "table" =>
        /\ \A i, j \in 1 .. Len(results_df) :
             (i < j /\ TableKey(results_df[j]) # None) =>
                 /\ TableKey(results_df[i]) # None
                 /\ TableKey(results_df[i]).v >= TableKey(results_df[j]).v
        /\ LET kept == filter_rows(results, company_filter)
           IN  /\ Len(results_df) = Len(kept)
               /\ {results_df[k] : k \in 1 .. Len(results_df)}
                    = {format_row(kept[k]) : k \in 1 .. Len(kept)}

\* C8 witness: a table whose first row was appended after its second, with a
\* larger value, and whose last row has no value though it was appended first
C8_Witness ==
    /\ pc = "table" /\ Len(results_df) >= 3
    /\ results_df[1].Ticker = results[3].Ticker
    /\ results_df[2].Ticker = results[2].Ticker
    /\ TableKey(results_df[1]).v > TableKey(results_df[2]).v
    /\ results_df[Len(results_df)].Ticker = results[1].Ticker
    /\ TableKey(results_df[Len(results_df)]) = None

====
